---- MODULE Spec2Model ----
(***************************************************************************)
(* Model of the RLM orchestrator of src/app.py: StreamlitRLM_REPL          *)
(* (setup_context, completion, _process_code_with_logging) together with   *)
(* the collaborators it drives: the root-model client, the REPL sandbox,   *)
(* the context packager, the prompt builders and the observer (logger).    *)
(*                                                                         *)
(* Text is a sequence of string tokens.  A response of the root model is a *)
(* sequence of tokens in which code fences and final-answer markers are    *)
(* tokens of their own, so that extraction of code fragments and of the    *)
(* final answer are real scans of the text.  Captured stdout / stderr are  *)
(* sequences of one-character tokens.                                      *)
(***************************************************************************)
EXTENDS Integers, Sequences, FiniteSets, TLC

(* ---------------------------------------------------------------------- *)
(* Program constants and model bounds                                      *)
(* ---------------------------------------------------------------------- *)

\* result.stdout[:2000]
StdoutCap == 2000

\* result.stderr[:500]
StderrCap == 500

\* Largest max_iterations a run is constructed with (the slider offers 1..20).
MaxIterations == 2

\* Number of completion calls made on the one orchestrator object.
MaxRuns == 2

\* How many characters beyond a cap the long outputs of the fragments carry.
Excess == 2

(* ---------------------------------------------------------------------- *)
(* Text                                                                    *)
(* ---------------------------------------------------------------------- *)

Alphabet == <<"a", "b", "c", "d", "e", "f", "g">>

\* A text of n characters whose i-th character depends on i.
Text(n) == [i \in 1..n |-> Alphabet[((i - 1) % Len(Alphabet)) + 1]]

\* Python s[:n]
Slice(s, n) == SubSeq(s, 1, IF Len(s) < n THEN Len(s) ELSE n)

\* Optional values: None is the empty tuple, Some(v) the one-element tuple.
None == <<>>
Some(v) == <<v>>

(* ---------------------------------------------------------------------- *)
(* Root-model responses: token sequences                                   *)
(* ---------------------------------------------------------------------- *)

Fence == "[repl"
EndFence == "]"
Prose == "thinking"

\* The statements a fragment is made of.
Statements == {"x = 7", "print(x)", "print(hi)", "1/0",
               "print(big)", "warn(big)", "print(cap)", "warn(cap)"}

\* The final-answer markers a response may carry.
Markers == {"FINAL(ans)", "FINAL()", "FINAL_VAR(x)"}

R_empty == <<>>
R_prose == <<Prose>>
R_bind == <<Fence, "x = 7", EndFence, Fence, "print(x)", EndFence>>
R_read == <<Prose, Fence, "print(x)", EndFence>>
R_two == <<Fence, "print(hi)", "1/0", "x = 7", EndFence,
           Fence, "print(x)", EndFence>>
R_big == <<Fence, "print(big)", "warn(big)", EndFence,
           Fence, "print(cap)", "warn(cap)", EndFence>>
R_final == <<Prose, "FINAL(ans)">>
R_codefinal == <<Fence, "x = 7", EndFence, "FINAL_VAR(x)">>
R_finalvar == <<"FINAL_VAR(x)">>
R_emptyfinal == <<"FINAL()">>

\* What the root model may answer to a request inside the loop.
Responses == {R_prose, R_bind, R_read, R_two, R_big,
              R_final, R_codefinal, R_finalvar, R_emptyfinal}

\* What the root model may answer to the forced final request.
FinalResponses == {R_empty, R_prose, R_bind, R_final}

\* utils.find_code_blocks: the fenced fragments of a response in source
\* order, None when there is none.  An unterminated fence matches nothing.
RECURSIVE ScanBlocks(_, _)
ScanBlocks(text, i) ==
    IF i > Len(text) THEN <<>>
    ELSE IF text[i] = Fence
         THEN LET ends == {j \in (i + 1)..Len(text) : text[j] = EndFence}
              IN IF ends = {} THEN <<>>
                 ELSE LET j == CHOOSE k \in ends : \A l \in ends : k <= l
                      IN <<SubSeq(text, i + 1, j - 1)>> \o ScanBlocks(text, j + 1)
         ELSE ScanBlocks(text, i + 1)

find_code_blocks(response) ==
    LET blocks == ScanBlocks(response, 1)
    IN IF blocks = <<>> THEN None ELSE Some(blocks)

(* ---------------------------------------------------------------------- *)
(* Context packager                                                        *)
(* ---------------------------------------------------------------------- *)

\* The context inputs: a plain text (what the text area of main supplies)
\* and a shape the packager does not recognise.
CtxText == [shape |-> "text", value |-> <<"c", "t", "x">>]
CtxBad == [shape |-> "malformed", value |-> <<>>]
Contexts == {CtxText, CtxBad}

\* utils.convert_context_for_repl: the (structured, display) pair, or a
\* rejection of an unrecognised shape.
convert_context_for_repl(context) ==
    IF context.shape = "text"
    THEN [ok |-> TRUE, data |-> None, str |-> Some(context.value)]
    ELSE IF context.shape \in {"list", "messages"}
    THEN [ok |-> TRUE, data |-> Some(context.value), str |-> None]
    ELSE [ok |-> FALSE, data |-> None, str |-> None]

(* ---------------------------------------------------------------------- *)
(* Execution sandbox                                                       *)
(* ---------------------------------------------------------------------- *)

\* Rebinding of one name in a namespace.
Bind(ns, name, value) ==
    [n \in DOMAIN ns \cup {name} |-> IF n = name THEN value ELSE ns[n]]

\* REPLEnv(context_json, context_str, ...): the namespace seeded with the
\* packaged context, before any fragment has run.
SeedNamespace(data, str) ==
    [n \in {"context"} |-> IF data # None THEN data[1] ELSE str[1]]

\* One statement against the run state st = [ns, stdout, stderr, faulted].
ExecStatement(st, stmt) ==
    CASE stmt = "x = 7" -> [st EXCEPT !.ns = Bind(st.ns, "x", <<"7">>)]
      [] stmt = "print(x)" ->
            IF "x" \in DOMAIN st.ns
            THEN [st EXCEPT !.stdout = @ \o st.ns["x"]]
            ELSE [st EXCEPT !.stderr = @ \o <<"N", "a", "m", "e">>, !.faulted = TRUE]
      [] stmt = "print(hi)" -> [st EXCEPT !.stdout = @ \o <<"h", "i">>]
      [] stmt = "1/0" -> [st EXCEPT !.stderr = @ \o <<"Z", "e", "r", "o">>, !.faulted = TRUE]
      [] stmt = "print(big)" -> [st EXCEPT !.stdout = @ \o Text(StdoutCap + Excess)]
      [] stmt = "warn(big)" -> [st EXCEPT !.stderr = @ \o Text(StderrCap + Excess)]
      [] stmt = "print(cap)" -> [st EXCEPT !.stdout = @ \o Text(StdoutCap)]
      [] stmt = "warn(cap)" -> [st EXCEPT !.stderr = @ \o Text(StderrCap)]
      [] OTHER -> [st EXCEPT !.stderr = @ \o <<"S", "y", "n">>, !.faulted = TRUE]

RECURSIVE ExecStatements(_, _, _)
ExecStatements(st, code, i) ==
    IF i > Len(code) \/ st.faulted THEN st
    ELSE ExecStatements(ExecStatement(st, code[i]), code, i + 1)

\* REPLEnv.code_execution: runs a fragment against the persistent namespace
\* and returns normally, a fault being text on stderr; the bindings made
\* before the fault stay.
code_execution(env, code) ==
    LET st == ExecStatements([ns |-> env.ns, stdout |-> <<>>, stderr |-> <<>>,
                              faulted |-> FALSE], code, 1)
    IN [env |-> [env EXCEPT !.ns = st.ns, !.history = Append(@, code)],
        result |-> [stdout |-> st.stdout, stderr |-> st.stderr]]

\* utils.check_for_final_answer: the answer the first final-answer marker of
\* the response designates (its text, or the value of the namespace binding
\* it names), None when there is no marker or no such binding.
check_for_final_answer(response, env) ==
    LET at == {i \in 1..Len(response) : response[i] \in Markers}
    IN IF at = {} THEN None
       ELSE LET m == response[CHOOSE i \in at : \A j \in at : i <= j]
            IN CASE m = "FINAL(ans)" -> Some(<<"a", "n", "s">>)
                 [] m = "FINAL()" -> Some(<<>>)
                 [] m = "FINAL_VAR(x)" ->
                       IF "x" \in DOMAIN env.ns THEN Some(env.ns["x"]) ELSE None

\* "is not None" in the place of truthiness.
Truthy_notNone(opt) == opt # None

\* Python truthiness of an optional text: neither None nor the empty text.
Truthy(opt) == opt # None /\ opt[1] # <<>>

(* ---------------------------------------------------------------------- *)
(* Prompt construction                                                     *)
(* ---------------------------------------------------------------------- *)

\* prompts.build_system_prompt: a fresh message list on every call.
build_system_prompt == <<[role |-> "system", content |-> <<"system prompt">>]>>

\* prompts.next_action_prompt(query, iteration, final_answer)
next_action_prompt(query, iteration, final_answer) ==
    [role |-> "user",
     content |-> IF final_answer
                 THEN <<"answer now", query, ToString(iteration)>>
                 ELSE <<"next action", query, ToString(iteration)>>]

Queries == {"q"}

(* ---------------------------------------------------------------------- *)
(* State                                                                   *)
(* ---------------------------------------------------------------------- *)

VARIABLES
    max_iterations, \* self._max_iterations
    depth,          \* self.depth
    query,          \* self.query (None before the first setup)
    messages,       \* self.messages, the conversation
    repl_env,       \* self.repl_env, the sandbox object (NoEnv: None)
    events,         \* the observer calls made since the current run began
    pc,             \* where completion stands
    rangePos,       \* how many values range(max_iterations) has yielded
    iteration,      \* the loop variable (Unbound before the first pass)
    inflight,       \* the message list of the root-model request in flight
    loopRequests,   \* root-model requests issued inside the loop, this run
    finalRequests,  \* forced final requests issued, this run
    answer,         \* what completion returned (None: nothing returned)
    context,        \* the context argument of the current completion call
    replies,        \* what self.llm.completion returned (Some) or raised
                    \* (None) in this run, in order
    fault,          \* the exception that left completion ("none": none)
    runs,           \* completion calls made so far
    envCount,       \* sandbox objects constructed so far
    session_state,  \* st.session_state of main(): a key-to-value mapping
    script          \* where the page script of main() stands

vars == <<max_iterations, depth, query, messages, repl_env, events, pc,
          rangePos, iteration, inflight, loopRequests, finalRequests,
          answer, context, replies, fault, runs, envCount, session_state,
          script>>

Unbound == -1

\* self.repl_env = None
NoEnv == [id |-> 0, ns |-> [n \in {} |-> <<>>], history |-> <<>>]

(* ---------------------------------------------------------------------- *)
(* The orchestrator's steps as functions                                   *)
(* ---------------------------------------------------------------------- *)

\* The rejection of the context swallowed: setup goes on without a sandbox.
setup_context_lenient(ctx, q, env, nenv) ==
    LET msgs == build_system_prompt
        pkg == convert_context_for_repl(ctx)
    IN [ok |-> TRUE,
        query |-> q,
        messages |-> msgs,
        events |-> <<[type |-> "query_started", query |-> q],
                     [type |-> "initial_messages", messages |-> msgs]>>,
        env |-> IF pkg.ok
                THEN [id |-> nenv + 1, ns |-> SeedNamespace(pkg.data, pkg.str),
                      history |-> <<>>]
                ELSE env]

\* The sandbox built once per object and kept for the later runs.
setup_context_keepEnv(ctx, q, env, nenv) ==
    LET msgs == build_system_prompt
        pkg == convert_context_for_repl(ctx)
    IN [ok |-> pkg.ok,
        query |-> q,
        messages |-> msgs,
        events |-> <<[type |-> "query_started", query |-> q],
                     [type |-> "initial_messages", messages |-> msgs]>>,
        env |-> IF pkg.ok /\ env.id = 0
                THEN [id |-> nenv + 1, ns |-> SeedNamespace(pkg.data, pkg.str),
                      history |-> <<>>]
                ELSE env]

\* setup_context, lines 160-177: the observer is told of the query and of
\* the system prompt, the conversation is seeded, then the context is
\* packaged and a new sandbox built around it.  A rejected context raises
\* out of setup after the first three steps and before the sandbox exists.
setup_context(ctx, q, env, nenv) ==
    LET msgs == build_system_prompt
        evs == <<[type |-> "query_started", query |-> q],
                 [type |-> "initial_messages", messages |-> msgs]>>
        pkg == convert_context_for_repl(ctx)
    IN [ok |-> pkg.ok,
        query |-> q,
        messages |-> msgs,
        events |-> evs,
        env |-> IF pkg.ok
                THEN [id |-> nenv + 1, ns |-> SeedNamespace(pkg.data, pkg.str),
                      history |-> <<>>]
                ELSE env]

\* The cap off by one.
TruncateStdout_short(stdout) ==
    IF Len(stdout) > StdoutCap THEN Slice(stdout, StdoutCap - 1) ELSE stdout

\* line 224
TruncateStdout(stdout) ==
    IF Len(stdout) > StdoutCap THEN Slice(stdout, StdoutCap) ELSE stdout

\* The stderr folded in whole.
TruncateStderr_uncapped(stderr) == stderr

\* line 225
TruncateStderr(stderr) ==
    IF Len(stderr) > StderrCap THEN Slice(stderr, StderrCap) ELSE stderr

StdoutLabel == <<"REPL environment returned:", "stdout: ">>
StderrLabel == <<"stderr: ">>

\* lines 227-230
ToolResponse(truncated_stdout, truncated_stderr) ==
    [role |-> "user",
     content |-> StdoutLabel \o truncated_stdout \o StderrLabel \o truncated_stderr]

\* lines 212-231, one pass of the loop over code_blocks:
\* acc = [messages, env, events].
ProcessBlock(acc, code_block) ==
    LET x == code_execution(acc.env, code_block)
        result == x.result
    IN [messages |-> Append(acc.messages,
                            ToolResponse(TruncateStdout(result.stdout),
                                         TruncateStderr(result.stderr))),
        env |-> x.env,
        events |-> Append(acc.events,
                          [type |-> "code_executed", code |-> code_block,
                           stdout |-> result.stdout, stderr |-> result.stderr])]

\* The loop over the fragments left at the first one that faulted.
RECURSIVE ProcessBlocks_abortOnFault(_, _, _)
ProcessBlocks_abortOnFault(acc, code_blocks, i) ==
    IF i > Len(code_blocks) THEN acc
    ELSE LET nxt == ProcessBlock(acc, code_blocks[i])
         IN IF nxt.events[Len(nxt.events)].stderr # <<>> THEN nxt
            ELSE ProcessBlocks_abortOnFault(nxt, code_blocks, i + 1)

RECURSIVE ProcessBlocks(_, _, _)
ProcessBlocks(acc, code_blocks, i) ==
    IF i > Len(code_blocks) THEN acc
    ELSE ProcessBlocks(ProcessBlock(acc, code_blocks[i]), code_blocks, i + 1)

\* The assistant message appended after the results of its fragments.
process_code_with_logging_assistantLast(response, msgs, code_blocks, env, evs) ==
    LET acc == ProcessBlocks([messages |-> msgs, env |-> env, events |-> evs],
                             code_blocks, 1)
    IN [acc EXCEPT !.messages = Append(@, [role |-> "assistant",
                                           content |-> response])]

\* _process_code_with_logging, lines 207-233
process_code_with_logging(response, msgs, code_blocks, env, evs) ==
    ProcessBlocks([messages |-> Append(msgs, [role |-> "assistant",
                                              content |-> response]),
                   env |-> env, events |-> evs],
                  code_blocks, 1)

\* The response appended without the framing prefix.
FramedAssistant_raw(response) == [role |-> "assistant", content |-> response]

\* lines 193-194
FramedAssistant(response) ==
    [role |-> "assistant", content |-> <<"You responded with:">> \o response]

\* The observer told of code whatever the response holds.
FoldResponse_hadCodeAlways(response, msgs, env, evs) ==
    LET code_blocks == find_code_blocks(response)
        logged == Append(evs, [type |-> "model_responded", response |-> response,
                               has_code |-> TRUE])
    IN IF code_blocks # None
       THEN process_code_with_logging(response, msgs, code_blocks[1], env, logged)
       ELSE [messages |-> Append(msgs, FramedAssistant(response)),
             env |-> env, events |-> logged]

\* lines 185-194: the response folded into the conversation.
FoldResponse(response, msgs, env, evs) ==
    LET code_blocks == find_code_blocks(response)
        logged == Append(evs, [type |-> "model_responded", response |-> response,
                               has_code |-> code_blocks # None])
    IN IF code_blocks # None
       THEN process_code_with_logging(response, msgs, code_blocks[1], env, logged)
       ELSE [messages |-> Append(msgs, FramedAssistant(response)),
             env |-> env, events |-> logged]

\* The final answer looked for only in responses without code.
FinalAnswerOf_proseOnly(response, env) ==
    IF find_code_blocks(response) # None THEN None
    ELSE check_for_final_answer(response, env)

\* line 196
FinalAnswerOf(response, env) == check_for_final_answer(response, env)

\* The forced instruction is built and not appended.
ForcedFinal_dropped(msgs, q, it) == msgs

\* The forced instruction written over the last message.
ForcedFinal_overwrite(msgs, q, it) ==
    [msgs EXCEPT ![Len(msgs)] = next_action_prompt(q, it, TRUE)]

\* line 202: the forced instruction joins the conversation.
ForcedFinal(msgs, q, it) == Append(msgs, next_action_prompt(q, it, TRUE))

\* lines 203-205: the completion of the forced request, returned as it is.
FinalAnswerText(response) == response

\* The loop bound off by one.
LoopContinues_inclusive == rangePos <= max_iterations

\* line 182: the for loop has another value to yield.
LoopContinues == rangePos < max_iterations

FinalEvent(text) == [type |-> "final_answer", text |-> text]

(* ---------------------------------------------------------------------- *)
(* The page: st.session_state and the logger's steps                       *)
(* ---------------------------------------------------------------------- *)

EmptySession == [k \in {} |-> None]

\* st.session_state.k = v
Put(s, k, v) == [j \in DOMAIN s \cup {k} |-> IF j = k THEN v ELSE s[j]]

\* if k in st.session_state: del st.session_state[k]
Del(s, k) == [j \in DOMAIN s \ {k} |-> s[j]]

\* st.session_state.get(k, default)
Get(s, k, default) == IF k \in DOMAIN s THEN s[k] ELSE default

\* lines 296-302: the example-size slider at its default.
ExampleSize == 1000

SystemDisplayCap == 300
ResponseDisplayCap == 800
CodeDisplayCap == 500
StdoutDisplayCap == 300
StderrDisplayCap == 200

\* s if len(s) <= cap else s[:cap] + marker
Display(s, cap, marker) ==
    IF Len(s) <= cap THEN s ELSE Slice(s, cap) \o <<marker>>

\* lines 37-43: the system step shows each message under its number and
\* role, the content cut at 300 characters.
SystemContent(msgs) ==
    [i \in 1..Len(msgs) |->
        [index |-> i, role |-> msgs[i].role,
         content |-> Display(msgs[i].content, SystemDisplayCap, "...")]]

\* lines 78-84: the output section of a code step.
OutputSection(stdout, stderr) ==
    (IF stdout # <<>>
     THEN <<"Output:">> \o Display(stdout, StdoutDisplayCap, "... (truncated)")
     ELSE <<>>)
    \o (IF stderr # <<>>
        THEN <<"Error:">> \o Slice(stderr, StderrDisplayCap)
        ELSE <<>>)

\* StreamlitLogger, lines 30-105: the steps the logger holds after the
\* observer calls evs.  log_query_start appends no step; a response step
\* carries the count of responses so far in its title.
RECURSIVE LoggerSteps(_)
LoggerSteps(evs) ==
    IF evs = <<>> THEN <<>>
    ELSE LET before == LoggerSteps(SubSeq(evs, 1, Len(evs) - 1))
             e == evs[Len(evs)]
             conversation_step ==
                 Len(SelectSeq(evs, LAMBDA x : x.type = "model_responded"))
         IN CASE e.type = "query_started" -> before
              [] e.type = "initial_messages" ->
                    Append(before, [type |-> "system",
                                    content |-> SystemContent(e.messages)])
              [] e.type = "model_responded" ->
                    Append(before, [type |-> "response",
                                    step |-> conversation_step,
                                    content |-> Display(e.response,
                                                        ResponseDisplayCap,
                                                        "*... (truncated)*"),
                                    has_code |-> e.has_code])
              [] e.type = "code_executed" ->
                    Append(before, [type |-> "code",
                                    code |-> Display(e.code, CodeDisplayCap,
                                                     "# ... (truncated)"),
                                    output |-> OutputSection(e.stdout, e.stderr)])
              [] e.type = "final_answer" ->
                    Append(before, [type |-> "final", content |-> e.text])

(* ---------------------------------------------------------------------- *)
(* Initial state: the object after __init__, lines 144-157                 *)
(* ---------------------------------------------------------------------- *)

Init ==
    /\ max_iterations \in 1..MaxIterations
    /\ depth = 0
    /\ query = None
    /\ messages = <<>>
    /\ repl_env = NoEnv
    /\ events = <<>>
    /\ pc = "idle"
    /\ rangePos = 0
    /\ iteration = Unbound
    /\ inflight = <<>>
    /\ loopRequests = 0
    /\ finalRequests = 0
    /\ answer = None
    /\ context = None
    /\ replies = <<>>
    /\ fault = "none"
    /\ runs = 0
    /\ envCount = 0
    /\ session_state = EmptySession
    /\ script = "waiting"

(* ---------------------------------------------------------------------- *)
(* Actions                                                                 *)
(* ---------------------------------------------------------------------- *)

\* completion is called, line 179, and runs setup_context, line 180.
Completion(context_arg, q) ==
    /\ pc \in {"idle", "returned", "failed"}
    /\ runs < MaxRuns
    /\ LET s == setup_context(context_arg, q, repl_env, envCount)
       IN /\ query' = Some(s.query)
          /\ messages' = s.messages
          /\ events' = s.events
          /\ repl_env' = s.env
          /\ envCount' = IF s.ok THEN envCount + 1 ELSE envCount
          /\ pc' = IF s.ok THEN "loop" ELSE "failed"
          /\ fault' = IF s.ok THEN "none" ELSE "context"
    /\ runs' = runs + 1
    /\ rangePos' = 0
    /\ iteration' = Unbound
    /\ inflight' = <<>>
    /\ loopRequests' = 0
    /\ finalRequests' = 0
    /\ answer' = None
    /\ context' = Some(context_arg)
    /\ replies' = <<>>
    /\ UNCHANGED <<session_state, script, max_iterations, depth>>

\* The instruction built from self.depth, which no statement advances.
LoopRequest_selfDepth ==
    /\ pc = "loop"
    /\ LoopContinues
    /\ iteration' = rangePos
    /\ rangePos' = rangePos + 1
    /\ inflight' = messages \o <<next_action_prompt(query[1], depth, FALSE)>>
    /\ loopRequests' = loopRequests + 1
    /\ pc' = "await_loop"
    /\ UNCHANGED <<session_state, script, max_iterations, depth, query, messages, repl_env, events,
                   finalRequests, answer, context, replies, fault, runs,
                   envCount>>

\* The next-action message appended to the conversation itself.
LoopRequest_persisting ==
    /\ pc = "loop"
    /\ LoopContinues
    /\ iteration' = rangePos
    /\ rangePos' = rangePos + 1
    /\ messages' = Append(messages, next_action_prompt(query[1], rangePos, FALSE))
    /\ inflight' = messages'
    /\ loopRequests' = loopRequests + 1
    /\ pc' = "await_loop"
    /\ UNCHANGED <<session_state, script, max_iterations, depth, query, repl_env, events,
                   finalRequests, answer, context, replies, fault, runs,
                   envCount>>

\* lines 182-183: the next pass of the loop issues its request over the
\* conversation plus a fresh next-action message.
LoopRequest ==
    /\ pc = "loop"
    /\ LoopContinues
    /\ iteration' = rangePos
    /\ rangePos' = rangePos + 1
    /\ inflight' = messages \o <<next_action_prompt(query[1], rangePos, FALSE)>>
    /\ loopRequests' = loopRequests + 1
    /\ pc' = "await_loop"
    /\ UNCHANGED <<session_state, script, max_iterations, depth, query, messages, repl_env, events,
                   finalRequests, answer, context, replies, fault, runs,
                   envCount>>

\* lines 185-200: the response arrives; it is folded into the conversation,
\* its fragments run, and the final answer is looked for.
LoopResponse(response) ==
    /\ pc = "await_loop"
    /\ LET f == FoldResponse(response, messages, repl_env, events)
           final_answer == FinalAnswerOf(response, f.env)
       IN /\ messages' = f.messages
          /\ repl_env' = f.env
          /\ IF Truthy(final_answer)
             THEN /\ events' = Append(f.events, FinalEvent(final_answer[1]))
                  /\ answer' = final_answer
                  /\ pc' = "returned"
             ELSE /\ events' = f.events
                  /\ answer' = answer
                  /\ pc' = "loop"
    /\ inflight' = <<>>
    /\ replies' = Append(replies, Some(response))
    /\ UNCHANGED <<session_state, script, max_iterations, depth, query, rangePos, iteration,
                   loopRequests, finalRequests, context, fault, runs,
                   envCount>>

\* lines 202-203: the loop is exhausted; the forced instruction is appended
\* and the final request issued over the conversation.
Finalize ==
    /\ pc = "loop"
    /\ ~LoopContinues
    /\ messages' = ForcedFinal(messages, query[1], iteration)
    /\ inflight' = messages'
    /\ finalRequests' = finalRequests + 1
    /\ pc' = "await_final"
    /\ UNCHANGED <<session_state, script, max_iterations, depth, query, repl_env, events, rangePos,
                   iteration, loopRequests, answer, context, replies, fault,
                   runs, envCount>>

\* lines 203-205: the completion of the forced request is the answer.
FinalResponse(response) ==
    /\ pc = "await_final"
    /\ events' = Append(events, FinalEvent(FinalAnswerText(response)))
    /\ answer' = Some(FinalAnswerText(response))
    /\ pc' = "returned"
    /\ inflight' = <<>>
    /\ replies' = Append(replies, Some(response))
    /\ UNCHANGED <<session_state, script, max_iterations, depth, query, messages, repl_env, rangePos,
                   iteration, loopRequests, finalRequests, context, fault,
                   runs, envCount>>

\* The fault caught inside completion: the request counts as unanswered and
\* the run goes on.
TransportFault_swallowed ==
    /\ pc \in {"await_loop", "await_final"}
    /\ pc' = IF pc = "await_loop" THEN "loop" ELSE "failed"
    /\ fault' = IF pc = "await_loop" THEN fault ELSE "transport"
    /\ inflight' = <<>>
    /\ replies' = Append(replies, None)
    /\ UNCHANGED <<session_state, script, max_iterations, depth, query, messages, repl_env, events,
                   rangePos, iteration, loopRequests, finalRequests, answer,
                   context, runs, envCount>>

\* self.llm.completion raises, line 183 or 203: nothing in completion
\* catches it.
TransportFault ==
    /\ pc \in {"await_loop", "await_final"}
    /\ pc' = "failed"
    /\ fault' = "transport"
    /\ inflight' = <<>>
    /\ replies' = Append(replies, None)
    /\ UNCHANGED <<session_state, script, max_iterations, depth, query, messages, repl_env, events,
                   rangePos, iteration, loopRequests, finalRequests, answer,
                   context, runs, envCount>>

Next ==
    \/ \E context_arg \in Contexts, q \in Queries : Completion(context_arg, q)
    \/ LoopRequest
    \/ \E response \in Responses : LoopResponse(response)
    \/ Finalize
    \/ \E response \in FinalResponses : FinalResponse(response)
    \/ TransportFault

Spec == Init /\ [][Next]_vars

\* The blocking calls of completion return or raise, and the single thread
\* of control of a run goes on to its next statement.
RunStep ==
    \/ LoopRequest
    \/ \E response \in Responses : LoopResponse(response)
    \/ Finalize
    \/ \E response \in FinalResponses : FinalResponse(response)
    \/ TransportFault

FairSpec == Spec /\ WF_vars(RunStep)

(* ---------------------------------------------------------------------- *)
(* The page script of main()                                               *)
(* ---------------------------------------------------------------------- *)

\* The context box holds a text; the slider of lines 287-292 a count.
ContextInputs == {CtxText}
SliderValues == 1..MaxIterations

\* The Run button with the earlier result and logs left in place.
PressRun_keepResult(context_input, query_input, slider) ==
    /\ script = "waiting"
    /\ runs < MaxRuns
    /\ context_input.value # <<>> /\ query_input # ""
    /\ session_state' =
          Put(Put(Put(Put(Put(Put(Put(session_state,
            "example_size", ExampleSize),
            "running", TRUE),
            "context", context_input),
            "query", query_input),
            "model", "gpt-5"),
            "recursive_model", "gpt-5-nano"),
            "max_iterations", slider)
    /\ script' = "rerun"
    /\ UNCHANGED <<max_iterations, depth, query, messages, repl_env, events,
                   pc, rangePos, iteration, inflight, loopRequests,
                   finalRequests, answer, context, replies, fault, runs,
                   envCount>>

\* lines 387-400: the Run button, enabled when both inputs are filled,
\* raises the running flag, stores the inputs, drops the stored result and
\* logs and asks for a rerun.
PressRun(context_input, query_input, slider) ==
    /\ script = "waiting"
    /\ runs < MaxRuns
    /\ context_input.value # <<>> /\ query_input # ""
    /\ session_state' =
          Del(Del(
            Put(Put(Put(Put(Put(Put(Put(session_state,
              "example_size", ExampleSize),
              "running", TRUE),
              "context", context_input),
              "query", query_input),
              "model", "gpt-5"),
              "recursive_model", "gpt-5-nano"),
              "max_iterations", slider),
            "result"), "logs")
    /\ script' = "rerun"
    /\ UNCHANGED <<max_iterations, depth, query, messages, repl_env, events,
                   pc, rangePos, iteration, inflight, loopRequests,
                   finalRequests, answer, context, replies, fault, runs,
                   envCount>>

\* lines 316-319: Clear All deletes every key and asks for a rerun.
ClearAll ==
    /\ script = "waiting"
    /\ session_state' = EmptySession
    /\ script' = "rerun"
    /\ UNCHANGED <<max_iterations, depth, query, messages, repl_env, events,
                   pc, rangePos, iteration, inflight, loopRequests,
                   finalRequests, answer, context, replies, fault, runs,
                   envCount>>

\* lines 411-431: the script finds the running flag up, builds a new logger
\* and a new orchestrator from the stored settings and calls completion on
\* the stored context and query.
StartRun ==
    /\ script = "rerun"
    /\ Get(session_state, "running", FALSE)
    /\ session_state' = Put(session_state, "example_size", ExampleSize)
    /\ max_iterations' = session_state["max_iterations"]
    /\ depth' = 0
    /\ LET s == setup_context(session_state["context"], session_state["query"],
                              NoEnv, envCount)
       IN /\ query' = Some(s.query)
          /\ messages' = s.messages
          /\ events' = s.events
          /\ repl_env' = s.env
          /\ envCount' = IF s.ok THEN envCount + 1 ELSE envCount
          /\ pc' = IF s.ok THEN "loop" ELSE "failed"
          /\ fault' = IF s.ok THEN "none" ELSE "context"
    /\ runs' = runs + 1
    /\ rangePos' = 0
    /\ iteration' = Unbound
    /\ inflight' = <<>>
    /\ loopRequests' = 0
    /\ finalRequests' = 0
    /\ answer' = None
    /\ context' = Some(session_state["context"])
    /\ replies' = <<>>
    /\ script' = "run"

\* lines 411, 441-470: with the running flag down the script shows the
\* stored logs, or the hint, and ends.
Render ==
    /\ script = "rerun"
    /\ ~Get(session_state, "running", FALSE)
    /\ session_state' = Put(session_state, "example_size", ExampleSize)
    /\ script' = "waiting"
    /\ UNCHANGED <<max_iterations, depth, query, messages, repl_env, events,
                   pc, rangePos, iteration, inflight, loopRequests,
                   finalRequests, answer, context, replies, fault, runs,
                   envCount>>

\* lines 432-435: completion returned; the result and the logger's steps
\* are stored, the running flag lowered and a rerun asked for.
StoreResult ==
    /\ script = "run"
    /\ pc = "returned"
    /\ session_state' =
          Put(Put(Put(session_state,
            "result", answer[1]),
            "logs", LoggerSteps(events)),
            "running", FALSE)
    /\ script' = "rerun"
    /\ UNCHANGED <<max_iterations, depth, query, messages, repl_env, events,
                   pc, rangePos, iteration, inflight, loopRequests,
                   finalRequests, answer, context, replies, fault, runs,
                   envCount>>

\* lines 437-439: the run raised; the error is shown and the running flag
\* lowered, and the script goes on to its end.
RunFailed ==
    /\ script = "run"
    /\ pc = "failed"
    /\ session_state' = Put(session_state, "running", FALSE)
    /\ script' = "waiting"
    /\ UNCHANGED <<max_iterations, depth, query, messages, repl_env, events,
                   pc, rangePos, iteration, inflight, loopRequests,
                   finalRequests, answer, context, replies, fault, runs,
                   envCount>>

\* The page after its first script run: no orchestrator built yet (its
\* variables stand as __init__ would leave them) and nothing stored but the
\* example size of line 305.
UIInit ==
    /\ max_iterations = 1
    /\ depth = 0
    /\ query = None
    /\ messages = <<>>
    /\ repl_env = NoEnv
    /\ events = <<>>
    /\ pc = "idle"
    /\ rangePos = 0
    /\ iteration = Unbound
    /\ inflight = <<>>
    /\ loopRequests = 0
    /\ finalRequests = 0
    /\ answer = None
    /\ context = None
    /\ replies = <<>>
    /\ fault = "none"
    /\ runs = 0
    /\ envCount = 0
    /\ session_state = Put(EmptySession, "example_size", ExampleSize)
    /\ script = "waiting"

UINext ==
    \/ \E context_input \in ContextInputs, query_input \in Queries,
          slider \in SliderValues : PressRun(context_input, query_input, slider)
    \/ ClearAll
    \/ StartRun
    \/ Render
    \/ LoopRequest
    \/ \E response \in Responses : LoopResponse(response)
    \/ Finalize
    \/ \E response \in FinalResponses : FinalResponse(response)
    \/ TransportFault
    \/ StoreResult
    \/ RunFailed

UISpec == UIInit /\ [][UINext]_vars

(* ---------------------------------------------------------------------- *)
(* Vocabulary of the properties                                            *)
(* ---------------------------------------------------------------------- *)

Running == pc \in {"loop", "await_loop", "await_final"}

CountType(t) == Cardinality({i \in 1..Len(events) : events[i].type = t})

NumBlocks(r) == Len(ScanBlocks(r, 1))

\* The responses delivered to requests of the loop, in order.
DeliveredLoopReplies ==
    LET n == IF Len(replies) < loopRequests THEN Len(replies) ELSE loopRequests
        m == IF n > 0 /\ replies[n] = None THEN n - 1 ELSE n
    IN [i \in 1..m |-> replies[i][1]]

RECURSIVE SumBlocks(_)
SumBlocks(rs) ==
    IF rs = <<>> THEN 0 ELSE NumBlocks(Head(rs)) + SumBlocks(Tail(rs))

\* A forced "answer now" instruction.
IsForced(m) ==
    \E q \in Queries, i \in 0..MaxIterations : m = next_action_prompt(q, i, TRUE)

ForcedAt == {i \in 1..Len(messages) : IsForced(messages[i])}

ReturnedInLoop == pc = "returned" /\ finalRequests = 0
ReturnedByFinalize == pc = "returned" /\ finalRequests = 1

(* ---------------------------------------------------------------------- *)
(* C1                                                                      *)
(* ---------------------------------------------------------------------- *)

\* C1: every run that returns, returns a non-empty text answer, the forced
\* finalize path included.
C1_ReturnsNonEmptyAnswer ==
    pc = "returned" => (answer # None /\ answer[1] # <<>>)

\* The termination half of C1, under FairSpec: a run past setup ends, with
\* an answer or with a transport fault.
C1_RunEnds == (pc = "loop") ~> (pc \in {"returned", "failed"})

(* ---------------------------------------------------------------------- *)
(* C2                                                                      *)
(* ---------------------------------------------------------------------- *)

\* C2: the loop issues at most max_iterations root-model requests; the
\* forced final request is issued at most once, and only after exactly
\* max_iterations loop requests were answered without a final answer; a run
\* issues at most max_iterations + 1 requests.
C2_RequestBound ==
    /\ loopRequests <= max_iterations
    /\ finalRequests \in {0, 1}
    /\ loopRequests + finalRequests <= max_iterations + 1
    /\ Len(replies) <= loopRequests + finalRequests
    /\ finalRequests = 1 =>
          /\ loopRequests = max_iterations
          /\ Len(DeliveredLoopReplies) = max_iterations
          /\ CountType("model_responded") = max_iterations
          /\ CountType("final_answer") = IF pc = "returned" THEN 1 ELSE 0
          /\ pc = "returned" => Len(replies) = max_iterations + 1

C2_Witness ==
    /\ ReturnedByFinalize
    /\ max_iterations = MaxIterations
    /\ loopRequests = MaxIterations

(* ---------------------------------------------------------------------- *)
(* C3                                                                      *)
(* ---------------------------------------------------------------------- *)

\* C3: every loop iteration looks for the final answer after the response
\* was folded into the conversation, with or without code fragments; the
\* iteration that finds one returns exactly it, issues no further request,
\* runs no further fragment and appends no forced instruction.
C3_FinalAnswerPrecedence ==
    [][/\ (pc = "await_loop" /\ pc' \in {"loop", "returned"}) =>
            LET r == replies'[Len(replies')][1]
                fa == check_for_final_answer(r, repl_env')
                k == Len(messages) + 1
            IN /\ Len(messages') >= k
               /\ messages'[k].role = "assistant"
               /\ messages'[k].content \in {r, <<"You responded with:">> \o r}
               /\ (pc' = "returned") = Truthy(fa)
               /\ pc' = "returned" =>
                     /\ answer' = fa
                     /\ events'[Len(events')] = [type |-> "final_answer", text |-> fa[1]]
                     /\ loopRequests' = loopRequests
                     /\ finalRequests' = 0
                     /\ inflight' = <<>>
                     /\ repl_env'.history = repl_env.history \o ScanBlocks(r, 1)
                     /\ \A i \in 1..Len(messages') : ~IsForced(messages'[i])
       /\ pc = "returned" => runs' = runs + 1
      ]_vars

C3_Witness ==
    /\ ReturnedInLoop
    /\ max_iterations = 2
    /\ replies = <<Some(R_codefinal)>>
    /\ answer = Some(<<"7">>)

(* ---------------------------------------------------------------------- *)
(* C4                                                                      *)
(* ---------------------------------------------------------------------- *)

\* C4: without a detected final answer exactly max_iterations iterations
\* run, then one forced instruction is appended, one more completion is
\* requested over that conversation, nothing of it is extracted or executed
\* and its text is the answer, verbatim.
C4_ForcedFinalize ==
    /\ (pc = "loop" /\ rangePos = max_iterations) =>
          (ENABLED Finalize /\ ~ENABLED LoopRequest)
    /\ (pc = "await_final" \/ finalRequests = 1) =>
          /\ rangePos = max_iterations
          /\ iteration = max_iterations - 1
          /\ loopRequests = max_iterations
          /\ CountType("model_responded") = max_iterations
          /\ finalRequests = 1
          /\ Cardinality(ForcedAt) = 1
          /\ messages[Len(messages)] =
                next_action_prompt(query[1], max_iterations - 1, TRUE)
          /\ CountType("code_executed") = SumBlocks(DeliveredLoopReplies)
          /\ Len(repl_env.history) = SumBlocks(DeliveredLoopReplies)
          /\ pc = "await_final" => inflight = messages
          /\ pc = "returned" =>
                /\ Len(replies) = max_iterations + 1
                /\ answer = replies[Len(replies)]
                /\ events[Len(events)] = [type |-> "final_answer", text |-> answer[1]]

C4_Witness ==
    /\ ReturnedByFinalize
    /\ max_iterations = 1
    /\ replies = <<Some(R_prose), Some(R_bind)>>
    /\ answer = Some(R_bind)

(* ---------------------------------------------------------------------- *)
(* Result messages and code-executed events                                *)
(* ---------------------------------------------------------------------- *)

IsCodeEvent(e) == e.type = "code_executed"

IsToolResponse(m) ==
    /\ m.role = "user"
    /\ Len(m.content) > Len(StdoutLabel)
    /\ SubSeq(m.content, 1, Len(StdoutLabel)) = StdoutLabel
    /\ \E p \in 1..Len(m.content) : m.content[p] = StderrLabel[1]

CodeEvents == SelectSeq(events, IsCodeEvent)
ToolMessages == SelectSeq(messages, IsToolResponse)

\* The two labelled parts of a result message.
StderrLabelAt(m) ==
    LET at == {p \in 1..Len(m.content) : m.content[p] = StderrLabel[1]}
    IN CHOOSE p \in at : \A o \in at : p <= o
StdoutPart(m) == SubSeq(m.content, Len(StdoutLabel) + 1, StderrLabelAt(m) - 1)
StderrPart(m) == SubSeq(m.content, StderrLabelAt(m) + 1, Len(m.content))

(* ---------------------------------------------------------------------- *)
(* C5                                                                      *)
(* ---------------------------------------------------------------------- *)

\* C5 (as stated): a stdout longer than 2000 characters appears in the
\* result message as its first 2000 characters followed by a truncation
\* marker, a stderr longer than 500 as its first 500 followed by a marker.
C5_TruncationWithMarker ==
    /\ Len(ToolMessages) = Len(CodeEvents)
    /\ \A k \in 1..Len(CodeEvents) :
          LET e == CodeEvents[k]
              m == ToolMessages[k]
          IN /\ Len(e.stdout) > StdoutCap =>
                   /\ Len(StdoutPart(m)) > StdoutCap
                   /\ SubSeq(StdoutPart(m), 1, StdoutCap) = SubSeq(e.stdout, 1, StdoutCap)
             /\ Len(e.stderr) > StderrCap =>
                   /\ Len(StderrPart(m)) > StderrCap
                   /\ SubSeq(StderrPart(m), 1, StderrCap) = SubSeq(e.stderr, 1, StderrCap)

\* C5 (amended): a stdout longer than 2000 characters appears in the result
\* message as exactly its first 2000 characters, a stderr longer than 500 as
\* exactly its first 500, with nothing added after either.
C5_TruncationExact ==
    /\ Len(ToolMessages) = Len(CodeEvents)
    /\ \A k \in 1..Len(CodeEvents) :
          LET e == CodeEvents[k]
              m == ToolMessages[k]
          IN /\ Len(e.stdout) > StdoutCap =>
                   StdoutPart(m) = SubSeq(e.stdout, 1, StdoutCap)
             /\ Len(e.stderr) > StderrCap =>
                   StderrPart(m) = SubSeq(e.stderr, 1, StderrCap)

C5_Witness ==
    \E k \in 1..Len(CodeEvents) :
        /\ Len(CodeEvents[k].stdout) > StdoutCap
        /\ Len(CodeEvents[k].stderr) > StderrCap
        /\ Len(ToolMessages) >= k
        /\ Len(StdoutPart(ToolMessages[k])) = StdoutCap
        /\ Len(StderrPart(ToolMessages[k])) = StderrCap

(* ---------------------------------------------------------------------- *)
(* C6                                                                      *)
(* ---------------------------------------------------------------------- *)

\* C6: a response with k fragments has all k executed once, in source
\* order, each giving one result message, whichever of them faulted; no
\* fault leaves completion, and the iteration goes on to the final-answer
\* check and the next iteration as it does without a fault.
C6_FaultIsData ==
    [][(pc = "await_loop" /\ pc' \in {"loop", "returned", "failed"}
        /\ replies'[Len(replies')] # None) =>
          LET r == replies'[Len(replies')][1]
              blocks == ScanBlocks(r, 1)
              k == Len(blocks)
              newEvents == SubSeq(events', Len(events) + 1, Len(events'))
              newMsgs == SubSeq(messages', Len(messages) + 1, Len(messages'))
          IN /\ fault' = "none"
             /\ pc' # "failed"
             /\ repl_env'.history = repl_env.history \o blocks
             /\ Len(newMsgs) = 1 + k
             /\ Len(newEvents) = 1 + k + (IF pc' = "returned" THEN 1 ELSE 0)
             /\ \A j \in 1..k :
                   /\ newEvents[1 + j].type = "code_executed"
                   /\ newEvents[1 + j].code = blocks[j]
                   /\ IsToolResponse(newMsgs[1 + j])
                   /\ StdoutPart(newMsgs[1 + j]) = Slice(newEvents[1 + j].stdout, StdoutCap)
                   /\ StderrPart(newMsgs[1 + j]) = Slice(newEvents[1 + j].stderr, StderrCap)
             /\ (pc' = "returned") = Truthy(check_for_final_answer(r, repl_env'))
             /\ pc' = "loop" => (ENABLED LoopRequest)' \/ (ENABLED Finalize)'
      ]_vars

C6_Witness ==
    \E i \in 1..Len(events) :
        /\ i + 1 <= Len(events)
        /\ events[i].type = "code_executed"
        /\ events[i].stderr # <<>>
        /\ events[i + 1].type = "code_executed"
        /\ \E j \in (i + 2)..Len(events) : events[j].type = "model_responded"

(* ---------------------------------------------------------------------- *)
(* C7                                                                      *)
(* ---------------------------------------------------------------------- *)

TransportFaulted == \E i \in 1..Len(replies) : replies[i] = None

\* C7: a transport fault of a root-model request, in the loop or on the
\* finalize path, leaves completion uncaught: the run ends without an
\* answer and without a final-answer event, the fault changes neither the
\* conversation nor the sandbox, and no request or fragment follows it.
C7_TransportFaultEndsRun ==
    /\ [](TransportFaulted =>
            /\ pc = "failed"
            /\ fault = "transport"
            /\ answer = None
            /\ CountType("final_answer") = 0
            /\ inflight = <<>>
            /\ Len(replies) = loopRequests + finalRequests
            /\ \A i \in 1..(Len(replies) - 1) : replies[i] # None
            /\ CountType("model_responded") = Len(DeliveredLoopReplies)
            /\ CountType("code_executed") = SumBlocks(DeliveredLoopReplies)
            /\ Len(repl_env.history) = SumBlocks(DeliveredLoopReplies))
    /\ [][/\ (~TransportFaulted /\ TransportFaulted') =>
                /\ pc \in {"await_loop", "await_final"}
                /\ UNCHANGED <<messages, repl_env, events, answer,
                               loopRequests, finalRequests>>
          /\ pc = "failed" => runs' = runs + 1
         ]_vars

C7_Witness ==
    /\ pc = "failed"
    /\ fault = "transport"
    /\ max_iterations = 2
    /\ replies = <<Some(R_bind), None>>
    /\ CountType("code_executed") = 2

(* ---------------------------------------------------------------------- *)
(* C8                                                                      *)
(* ---------------------------------------------------------------------- *)

ContextRejected == context # None /\ ~convert_context_for_repl(context[1]).ok

\* The value the packager hands to the sandbox for this run's context.
PackagedContext ==
    LET pkg == convert_context_for_repl(context[1])
    IN IF pkg.data # None THEN pkg.data[1] ELSE pkg.str[1]

\* C8: a rejected context fails the run in setup, before any root-model
\* request and before any fragment; a run that goes past setup has a
\* sandbox built from its own packaged context.
C8_RejectedContextFailsFast ==
    /\ [](ContextRejected =>
            /\ pc = "failed"
            /\ fault = "context"
            /\ loopRequests = 0
            /\ finalRequests = 0
            /\ replies = <<>>
            /\ inflight = <<>>
            /\ answer = None
            /\ CountType("model_responded") = 0
            /\ CountType("code_executed") = 0)
    /\ []((Running \/ pc = "returned" \/ fault = "transport") =>
            /\ ~ContextRejected
            /\ repl_env # NoEnv
            /\ "context" \in DOMAIN repl_env.ns
            /\ repl_env.ns["context"] = PackagedContext)
    /\ [][(runs' = runs + 1 /\ ContextRejected') => repl_env' = repl_env]_vars

C8_Witness ==
    /\ ContextRejected
    /\ pc = "failed"
    /\ runs = 2
    /\ repl_env.id = 1
    /\ Len(repl_env.history) > 0

(* ---------------------------------------------------------------------- *)
(* The run replayed on a fresh sandbox                                     *)
(* ---------------------------------------------------------------------- *)

\* A sandbox seeded from this run's context that has run nothing.
FreshEnv ==
    IF context = None \/ ContextRejected THEN NoEnv
    ELSE [id |-> envCount,
          ns |-> [n \in {"context"} |-> PackagedContext],
          history |-> <<>>]

\* acc = [env, events]: the fragments run one after the other on one sandbox.
RECURSIVE ReplayBlocks(_, _, _)
ReplayBlocks(acc, blocks, i) ==
    IF i > Len(blocks) THEN acc
    ELSE LET x == code_execution(acc.env, blocks[i])
         IN ReplayBlocks([env |-> x.env,
                          events |-> Append(acc.events,
                                            [type |-> "code_executed",
                                             code |-> blocks[i],
                                             stdout |-> x.result.stdout,
                                             stderr |-> x.result.stderr])],
                         blocks, i + 1)

RECURSIVE ReplayReplies(_, _, _)
ReplayReplies(acc, rs, i) ==
    IF i > Len(rs) THEN acc
    ELSE LET blocks == ScanBlocks(rs[i], 1)
             told == [acc EXCEPT !.events =
                         Append(@, [type |-> "model_responded",
                                    response |-> rs[i],
                                    has_code |-> blocks # <<>>])]
         IN ReplayReplies(ReplayBlocks(told, blocks, 1), rs, i + 1)

\* The sandbox and the observer trace this run's replies lead to, from the
\* given opening events.
Replayed(opening) ==
    ReplayReplies([env |-> FreshEnv, events |-> opening], DeliveredLoopReplies, 1)

Closing == IF pc = "returned" THEN <<[type |-> "final_answer", text |-> answer[1]]>>
           ELSE <<>>

(* ---------------------------------------------------------------------- *)
(* C9                                                                      *)
(* ---------------------------------------------------------------------- *)

\* C9: the fragments of a run all execute on the one sandbox built in that
\* run's setup, each seeing the bindings of those before it, and that
\* sandbox and the conversation start fresh in every run: the sandbox holds
\* what its own run's fragments made of the seeded namespace, and the
\* conversation holds the system prompt and this run's messages only.
C9_SandboxPerRun ==
    (context # None /\ ~ContextRejected) =>
        LET rp == Replayed(<<>>)
        IN /\ repl_env = rp.env
           /\ CodeEvents = SelectSeq(rp.events, IsCodeEvent)
           /\ SubSeq(messages, 1, Len(build_system_prompt)) = build_system_prompt
           /\ Len(messages) = Len(build_system_prompt) + Len(DeliveredLoopReplies)
                              + Len(CodeEvents) + finalRequests

C9_Witness ==
    /\ runs = 2
    /\ repl_env.id = 2
    /\ replies = <<Some(R_read), Some(R_bind)>>
    /\ Len(CodeEvents) = 3
    /\ CodeEvents[1].code = <<"print(x)">> /\ CodeEvents[1].stderr # <<>>
    /\ CodeEvents[2].code = <<"x = 7">>
    /\ CodeEvents[3].code = <<"print(x)">> /\ CodeEvents[3].stdout = <<"7">>

(* ---------------------------------------------------------------------- *)
(* C10                                                                     *)
(* ---------------------------------------------------------------------- *)

QueryStarted == [type |-> "query_started", query |-> query[1]]
InitialMessages == [type |-> "initial_messages", messages |-> build_system_prompt]

\* C10 (as stated): the observer gets four event types and no other:
\* query-started once at run start, model-responded once per loop response
\* with had-code true exactly when fragments were found, code-executed once
\* per executed fragment in execution order, final-answer once, last, with
\* the returned answer, in a run that returns.
C10_FourEventTypes ==
    events = (IF runs = 0 THEN <<>>
              ELSE Replayed(<<QueryStarted>>).events \o Closing)

\* C10 (amended): as stated, with a fifth event type: initial-messages,
\* carrying the system prompt, once per run right after query-started.
C10_FiveEventTypes ==
    events = (IF runs = 0 THEN <<>>
              ELSE Replayed(<<QueryStarted, InitialMessages>>).events \o Closing)

C10_Witness ==
    /\ ReturnedInLoop
    /\ replies = <<Some(R_two), Some(R_final)>>
    /\ Len(events) = 7
    /\ events[3].type = "model_responded" /\ events[3].has_code
    /\ events[4].type = "code_executed" /\ events[5].type = "code_executed"
    /\ events[6].type = "model_responded" /\ ~events[6].has_code
    /\ events[7] = [type |-> "final_answer", text |-> <<"a", "n", "s">>]

(* ---------------------------------------------------------------------- *)
(* The conversation a run's replies lead to                                *)
(* ---------------------------------------------------------------------- *)

\* The message an observer event of the loop stands for in the conversation.
MessageOf(e) ==
    IF e.type = "model_responded"
    THEN [role |-> "assistant",
          content |-> IF e.has_code THEN e.response
                      ELSE <<"You responded with:">> \o e.response]
    ELSE [role |-> "user",
          content |-> <<"REPL environment returned:", "stdout: ">>
                      \o Slice(e.stdout, StdoutCap)
                      \o <<"stderr: ">> \o Slice(e.stderr, StderrCap)]

ForcedTail ==
    IF finalRequests = 1
    THEN <<next_action_prompt(query[1], max_iterations - 1, TRUE)>>
    ELSE <<>>

ExpectedConversation ==
    IF runs = 0 THEN <<>>
    ELSE LET evs == Replayed(<<>>).events
         IN build_system_prompt \o [i \in 1..Len(evs) |-> MessageOf(evs[i])]
            \o ForcedTail

\* A per-turn next-action instruction.
IsNextAction(m) ==
    \E q \in Queries, i \in 0..MaxIterations : m = next_action_prompt(q, i, FALSE)

(* ---------------------------------------------------------------------- *)
(* C11                                                                     *)
(* ---------------------------------------------------------------------- *)

\* C11: the conversation is in causal order: per response with fragments
\* one assistant message with the raw response, then one user message per
\* fragment in source order; and every root-model request carries the whole
\* conversation, so it sees every result message of the responses before it.
C11_CausalOrder ==
    /\ messages = ExpectedConversation
    /\ pc = "await_loop" =>
          /\ Len(inflight) = Len(messages) + 1
          /\ SubSeq(inflight, 1, Len(messages)) = messages
    /\ pc = "await_final" => inflight = messages

C11_Witness ==
    /\ pc = "await_loop"
    /\ replies = <<Some(R_two)>>
    /\ Len(inflight) = 5
    /\ inflight[2] = [role |-> "assistant", content |-> R_two]
    /\ IsToolResponse(inflight[3]) /\ StdoutPart(inflight[3]) = <<"h", "i">>
    /\ IsToolResponse(inflight[4]) /\ StdoutPart(inflight[4]) = <<>>

(* ---------------------------------------------------------------------- *)
(* C12                                                                     *)
(* ---------------------------------------------------------------------- *)

\* C12: within a run the conversation only grows at its end: setup seeds it
\* with the system prompt, and every later step leaves the conversation it
\* found as a prefix of the one it leaves.
C12_AppendOnly ==
    [][/\ runs' = runs + 1 => messages' = build_system_prompt
       /\ runs' = runs =>
             /\ Len(messages') >= Len(messages)
             /\ SubSeq(messages', 1, Len(messages)) = messages
      ]_vars

C12_Witness ==
    /\ ReturnedByFinalize
    /\ replies = <<Some(R_two), Some(R_prose), Some(R_prose)>>
    /\ Len(messages) = 6

(* ---------------------------------------------------------------------- *)
(* C13                                                                     *)
(* ---------------------------------------------------------------------- *)

\* C13: a loop request goes out over the conversation plus one next-action
\* message built from (query, iteration), and issuing it leaves the
\* conversation as it was; the conversation never holds a next-action
\* instruction, and the one instruction it ever gets is the forced one.
C13_NextActionNotPersisted ==
    /\ [](/\ \A i \in 1..Len(messages) : ~IsNextAction(messages[i])
          /\ Cardinality(ForcedAt) = finalRequests
          /\ pc = "await_loop" =>
                inflight = messages \o <<next_action_prompt(query[1], iteration, FALSE)>>)
    /\ [][(pc = "loop" /\ pc' = "await_loop") => messages' = messages]_vars

C13_Witness ==
    /\ pc = "await_loop"
    /\ iteration = 1
    /\ Len(inflight) = Len(messages) + 1
    /\ IsNextAction(inflight[Len(inflight)])

(* ---------------------------------------------------------------------- *)
(* C14                                                                     *)
(* ---------------------------------------------------------------------- *)

\* C14: a response without fragments adds one message, the assistant
\* message holding the framing prefix and then the response; nothing is
\* executed, no user message is added and no code-executed event emitted.
C14_ProseResponse ==
    [][(pc = "await_loop" /\ pc' \in {"loop", "returned"}
        /\ ScanBlocks(replies'[Len(replies')][1], 1) = <<>>) =>
          LET r == replies'[Len(replies')][1]
              newEvents == SubSeq(events', Len(events) + 1, Len(events'))
          IN /\ messages' = Append(messages,
                                   [role |-> "assistant",
                                    content |-> <<"You responded with:">> \o r])
             /\ repl_env' = repl_env
             /\ newEvents[1] = [type |-> "model_responded", response |-> r,
                                has_code |-> FALSE]
             /\ \A j \in 1..Len(newEvents) : newEvents[j].type # "code_executed"
      ]_vars

C14_Witness ==
    /\ pc = "loop"
    /\ replies = <<Some(R_prose)>>
    /\ Len(messages) = 2
    /\ messages[2] = [role |-> "assistant",
                      content |-> <<"You responded with:", Prose>>]
    /\ repl_env.history = <<>>

(* ---------------------------------------------------------------------- *)
(* C15                                                                     *)
(* ---------------------------------------------------------------------- *)

\* C15: while the loop runs the depth stays within 0 <= depth <
\* max_iterations, and the i-th loop request, counted from 0, builds its
\* next-action instruction with depth i, one more than the request before.
C15_DepthInvariant ==
    /\ [](/\ pc = "await_loop" =>
                /\ 0 <= depth /\ depth < max_iterations
                /\ 0 <= iteration /\ iteration < max_iterations
                /\ iteration = loopRequests - 1
                /\ inflight[Len(inflight)] =
                      next_action_prompt(query[1], loopRequests - 1, FALSE)
          /\ (pc = "loop" /\ rangePos < max_iterations) =>
                /\ 0 <= depth /\ depth < max_iterations
                /\ iteration = rangePos - 1
                /\ rangePos = loopRequests)
    /\ [][(pc = "loop" /\ pc' = "await_loop") =>
             /\ iteration' = loopRequests
             /\ loopRequests' = loopRequests + 1]_vars

C15_Witness ==
    /\ pc = "await_loop"
    /\ max_iterations = 2
    /\ loopRequests = 2
    /\ inflight[Len(inflight)] = next_action_prompt("q", 1, FALSE)

(* ---------------------------------------------------------------------- *)
(* C16                                                                     *)
(* ---------------------------------------------------------------------- *)

\* C16: in every result message the stdout text is a prefix of the captured
\* stdout of at most 2000 characters and the stderr text a prefix of the
\* captured stderr of at most 500; a stream within its cap is there
\* unchanged; and each of the two follows a label of its own.
C16_OutputCaps ==
    /\ Len(ToolMessages) = Len(CodeEvents)
    /\ \A i \in 1..Len(messages) :
          (messages[i].role = "user" /\ ~IsForced(messages[i])) =>
             IsToolResponse(messages[i])
    /\ \A k \in 1..Len(CodeEvents) :
          LET e == CodeEvents[k]
              m == ToolMessages[k]
              out == StdoutPart(m)
              err == StderrPart(m)
          IN /\ m.content = <<"REPL environment returned:", "stdout: ">> \o out
                            \o <<"stderr: ">> \o err
             /\ Len(out) <= StdoutCap
             /\ Len(out) <= Len(e.stdout)
             /\ out = SubSeq(e.stdout, 1, Len(out))
             /\ Len(e.stdout) <= StdoutCap => out = e.stdout
             /\ Len(err) <= StderrCap
             /\ Len(err) <= Len(e.stderr)
             /\ err = SubSeq(e.stderr, 1, Len(err))
             /\ Len(e.stderr) <= StderrCap => err = e.stderr

C16_Witness ==
    /\ Len(ToolMessages) = Len(CodeEvents)
    /\ \E k \in 1..Len(CodeEvents) :
          /\ Len(CodeEvents[k].stdout) = StdoutCap
          /\ StdoutPart(ToolMessages[k]) = CodeEvents[k].stdout
          /\ Len(CodeEvents[k].stderr) = StderrCap
          /\ StderrPart(ToolMessages[k]) = CodeEvents[k].stderr
    /\ \E k \in 1..Len(CodeEvents) :
          /\ Len(CodeEvents[k].stderr) > StderrCap
          /\ Len(StderrPart(ToolMessages[k])) = StderrCap

(* ---------------------------------------------------------------------- *)
(* C17                                                                     *)
(* ---------------------------------------------------------------------- *)

\* C17: an answer returned from inside the loop is not empty: an iteration
\* whose final-answer value is absent or empty returns nothing and the run
\* goes on to the next iteration or to the finalize path.
C17_LoopAnswerNonEmpty ==
    /\ [](ReturnedInLoop => (answer # None /\ answer[1] # <<>>))
    /\ [][(pc = "await_loop" /\ pc' \in {"loop", "returned"}) =>
             LET fa == check_for_final_answer(replies'[Len(replies')][1], repl_env')
             IN (fa = None \/ fa[1] = <<>>) =>
                   /\ pc' = "loop"
                   /\ answer' = None
                   /\ CountType("final_answer")' = 0
                   /\ (ENABLED LoopRequest)' \/ (ENABLED Finalize)'
         ]_vars

C17_Witness ==
    /\ pc = "await_final"
    /\ replies = <<Some(R_emptyfinal), Some(R_finalvar)>>
    /\ answer = None

(* ---------------------------------------------------------------------- *)
(* C18                                                                     *)
(* ---------------------------------------------------------------------- *)

SessionRunning == Get(session_state, "running", FALSE)
HasResult == "result" \in DOMAIN session_state
HasLogs == "logs" \in DOMAIN session_state

\* The steps a logger holds at the end of the run whose replies the record
\* shows, rebuilt from the replies.
RunSteps == LoggerSteps(Replayed(<<QueryStarted, InitialMessages>>).events \o Closing)

\* C18: pressing Run raises the running flag and drops the stored result and
\* logs; a run that completes stores its result and logs and lowers the
\* flag; a run that raises lowers the flag and stores neither.  So the flag
\* is down whenever the page waits, and a stored result is the answer of the
\* latest run, which completed.
C18_RunCycle ==
    /\ [](/\ script = "waiting" => ~SessionRunning
          /\ script = "run" => (SessionRunning /\ ~HasResult /\ ~HasLogs)
          /\ SessionRunning => (~HasResult /\ ~HasLogs)
          /\ HasResult <=> HasLogs
          /\ HasResult =>
                /\ pc = "returned"
                /\ session_state["result"] = answer[1]
                /\ session_state["logs"] = RunSteps)
    /\ [][(~SessionRunning /\ SessionRunning') =>
             (~HasResult' /\ ~HasLogs' /\ script' = "rerun")]_vars
    /\ [][(script = "run" /\ script' # "run" /\ pc = "returned") =>
             /\ ~SessionRunning'
             /\ HasResult' /\ session_state'["result"] = answer[1]
             /\ HasLogs']_vars
    /\ [][(script = "run" /\ script' # "run" /\ pc = "failed") =>
             (~SessionRunning' /\ ~HasResult' /\ ~HasLogs')]_vars

\* A second run has raised: the page waits with the flag down and nothing
\* stored.
C18_Witness ==
    /\ script = "waiting"
    /\ runs = 2
    /\ envCount = 2
    /\ pc = "failed"
    /\ ~SessionRunning
    /\ ~HasResult /\ ~HasLogs
    /\ "context" \in DOMAIN session_state

====
